---- MODULE Spec2Model ----
(***************************************************************************)
(* django-htmx-admin: the fragment endpoints of HtmxModelAdmin and of the  *)
(* standalone views (inline field edit, delete, modal create/edit), the    *)
(* HX-Trigger encoding they share, and the three response middlewares.     *)
(*                                                                         *)
(* Two specifications share this module:                                   *)
(*   Spec    one fragment endpoint request per step against a record store *)
(*   MwSpec  one request travelling out through the middleware chain       *)
(***************************************************************************)
EXTENDS Integers, Sequences, FiniteSets, TLC

VARIABLES
    store,      \* the model's table: primary key -> record (the host ORM's rows)
    related,    \* the model's many-to-many table: primary key -> set of related keys
    nextPk,     \* the table's auto-increment counter
    before,     \* the table as it was when the last request arrived
    request,    \* the last fragment request handled
    response,   \* the response being produced / last produced
    access,     \* loads and writes the last request made on the table
    served,     \* number of fragment requests handled so far
    order,      \* settings.MIDDLEWARE, outermost first
    pending,    \* middlewares whose __call__ still has to post-process, innermost first
    ran,        \* middlewares that have post-processed the current response, innermost first
    hxRequest,  \* the HX-Request request header: <<>> when absent, else <<value>>
    messages,   \* django.contrib.messages storage: the user's pending messages
    msgIn,      \* the pending messages when the view returned
    inner,      \* the response the view returned to the innermost middleware
    mwIn,       \* the response the middleware that ran last received from get_response
    call,       \* the arguments of a direct htmx_response call, and whether it returned
    inflight    \* the requests the workers are handling side by side, in order of arrival

vars == <<store, related, nextPk, before, request, response, access, served,
          order, pending, ran, hxRequest, messages, msgIn, inner, mwIn, call,
          inflight>>
dbVars == <<store, related, nextPk, before, request, access, served>>
mwVars == <<order, pending, ran, hxRequest, messages, msgIn, inner, mwIn>>

----------------------------------------------------------------------------
(* Bounds *)

\* primary keys range over 1..MaxPk
MaxPk == 3
\* fragment requests handled in one run
MaxRequests == 2
\* messages a request can have pending
MaxMessages == 2
\* events passed to one htmx_response call
MaxTriggers == 2
MaxWorkers == 2

----------------------------------------------------------------------------
(* JSON text.  A header value is a string; it is modelled by its sequence  *)
(* of lexemes, so that json.dumps and json.loads are real conversions.     *)

Tok(k, v) == [k |-> k, v |-> v]
\* punctuation, quoted string, bare word, number
P(c) == Tok("p", c)
S(s) == Tok("str", s)
W(w) == Tok("w", w)
N(n) == Tok("n", n)

\* a JSON value (python: True/False/None, str, int, dict, list)
JV(t, s, kv) == [t |-> t, s |-> s, kv |-> kv]
JTrue == JV("true", "", <<>>)
JFalse == JV("false", "", <<>>)
JNull == JV("null", "", <<>>)
JStr(s) == JV("str", s, <<>>)
JNum(n) == JV("num", n, <<>>)
\* a dict keeps insertion order: a sequence of key/value pairs with distinct keys
KV(k, v) == [k |-> k, v |-> v]
JObj(pairs) == JV("obj", "", pairs)
\* a list: its items, each wrapped as a pair with an empty key
JList(items) == JV("list", "", [i \in 1..Len(items) |-> KV("", items[i])])

DictHas(d, k) == \E i \in 1..Len(d) : d[i].k = k
DictGet(d, k) == d[CHOOSE i \in 1..Len(d) : d[i].k = k].v
\* d[k] = v
DictSet(d, k, v) ==
    IF DictHas(d, k)
    THEN [i \in 1..Len(d) |-> IF d[i].k = k THEN KV(k, v) ELSE d[i]]
    ELSE Append(d, KV(k, v))

RECURSIVE Dumps(_), DumpPairs(_, _, _)
\* json.dumps(j)
Dumps(j) ==
    CASE j.t = "obj" -> <<P("{")>> \o DumpPairs(j.kv, 1, TRUE) \o <<P("}")>>
      [] j.t = "list" -> <<P("[")>> \o DumpPairs(j.kv, 1, FALSE) \o <<P("]")>>
      [] j.t = "str" -> <<S(j.s)>>
      [] j.t = "num" -> <<N(j.s)>>
      [] OTHER -> <<W(j.t)>>
DumpPairs(kv, i, keyed) ==
    IF i > Len(kv) THEN <<>>
    ELSE (IF i > 1 THEN <<P(",")>> ELSE <<>>)
         \o (IF keyed THEN <<S(kv[i].k), P(":")>> ELSE <<>>)
         \o Dumps(kv[i].v)
         \o DumpPairs(kv, i + 1, keyed)

ParseFail == [ok |-> FALSE, v |-> JNull, i |-> 0]
ParseOk(v, i) == [ok |-> TRUE, v |-> v, i |-> i]

RECURSIVE ParseValue(_, _), ParseMembers(_, _, _), ParseItems(_, _, _)
\* the JSON value starting at lexeme i, and the position after it
ParseValue(toks, i) ==
    IF i > Len(toks) THEN ParseFail
    ELSE LET t == toks[i] IN
         CASE t.k = "str" -> ParseOk(JStr(t.v), i + 1)
           [] t.k = "n" -> ParseOk(JNum(t.v), i + 1)
           [] t.k = "w" ->
                IF t.v \in {"true", "false", "null"}
                THEN ParseOk(JV(t.v, "", <<>>), i + 1)
                ELSE ParseFail
           [] t = P("{") ->
                IF i + 1 <= Len(toks) /\ toks[i + 1] = P("}")
                THEN ParseOk(JObj(<<>>), i + 2)
                ELSE ParseMembers(toks, i + 1, <<>>)
           [] t = P("[") ->
                IF i + 1 <= Len(toks) /\ toks[i + 1] = P("]")
                THEN ParseOk(JList(<<>>), i + 2)
                ELSE ParseItems(toks, i + 1, <<>>)
           [] OTHER -> ParseFail
ParseMembers(toks, i, acc) ==
    IF i + 1 > Len(toks) \/ toks[i].k # "str" \/ toks[i + 1] # P(":")
    THEN ParseFail
    ELSE LET r == ParseValue(toks, i + 2) IN
         IF ~r.ok \/ r.i > Len(toks) THEN ParseFail
         ELSE LET acc2 == DictSet(acc, toks[i].v, r.v) IN
              IF toks[r.i] = P("}") THEN ParseOk(JObj(acc2), r.i + 1)
              ELSE IF toks[r.i] = P(",") THEN ParseMembers(toks, r.i + 1, acc2)
              ELSE ParseFail
ParseItems(toks, i, acc) ==
    LET r == ParseValue(toks, i) IN
    IF ~r.ok \/ r.i > Len(toks) THEN ParseFail
    ELSE LET acc2 == Append(acc, r.v) IN
         IF toks[r.i] = P("]") THEN ParseOk(JList(acc2), r.i + 1)
         ELSE IF toks[r.i] = P(",") THEN ParseItems(toks, r.i + 1, acc2)
         ELSE ParseFail

\* json.loads(text): ok = FALSE stands for json.JSONDecodeError
Loads(toks) ==
    LET r == ParseValue(toks, 1) IN
    IF r.ok /\ r.i = Len(toks) + 1 THEN r ELSE ParseFail

RECURSIVE Text(_)
\* the header value as the python string it is (used as a dict key)
Text(toks) ==
    IF toks = <<>> THEN ""
    ELSE (IF Head(toks).k = "str" THEN "\"" \o Head(toks).v \o "\"" ELSE Head(toks).v)
         \o Text(Tail(toks))

----------------------------------------------------------------------------
(* Responses *)

\* a rendered template (the fragment the browser swaps in) or a plain text body
Body(template, value, errors, is_editable) ==
    [template |-> template, value |-> value, errors |-> errors, is_editable |-> is_editable]
NoBody == Body("", "", FALSE, FALSE)
TextBody(text) == Body("text", text, FALSE, FALSE)

\* django.http.HttpResponse(content, status=status); a header is <<>> when not set
\* and <<value>> when set
HttpResponse(content, status) ==
    [status |-> status, body |-> content,
     trigger |-> <<>>,      \* HX-Trigger
     location |-> <<>>,     \* Location
     redirect |-> <<>>,     \* HX-Redirect
     vary |-> <<>>]         \* Vary

\* htmx_response setting the header without the `if triggers:` test
htmx_response_AlwaysHeader(content, status, triggers) ==
    [HttpResponse(content, status) EXCEPT !.trigger = <<Dumps(JObj(triggers))>>]

\* HtmxResponseMixin.htmx_response(content, status, **triggers)
htmx_response(content, status, triggers) ==
    IF triggers # <<>>
    THEN [HttpResponse(content, status) EXCEPT !.trigger = <<Dumps(JObj(triggers))>>]
    ELSE HttpResponse(content, status)

\* the decoded HX-Trigger of a response, when it is a JSON object
TriggerIsObject(resp) ==
    /\ resp.trigger # <<>>
    /\ Loads(resp.trigger[1]).ok
    /\ Loads(resp.trigger[1]).v.t = "obj"
TriggerEvents(resp) == Loads(resp.trigger[1]).v.kv

----------------------------------------------------------------------------
(* The managed model and the host's forms.  The package is generic over    *)
(* the model; the model used here is the Product of the package's examples *)

Fields == {"name", "price", "description"}
\* HtmxModelAdmin.list_editable_htmx of the registered admin
list_editable_htmx == {"price", "description"}
\* HtmxInlineEditView.editable_fields of the routed view
editable_fields == {"price", "description"}
\* HtmxModelAdmin.modal_fields
modal_fields == {}

Pks == 1..MaxPk
\* str(pk) and the URL's text for a primary key
PkStr == <<"1", "2", "3", "4", "5", "6", "7", "8", "9">>
str(pk) == PkStr[pk]
\* the primary key a URL token denotes (pk=object_id)
ToPk(object_id) == CHOOSE pk \in 1..Len(PkStr) : PkStr[pk] = object_id
ObjectIds == {str(pk) : pk \in Pks}

Record(name, price, description) ==
    [name |-> name, price |-> price, description |-> description]
\* str(obj)
Label(obj) == obj.name
\* how a template shows a field's value
Display(field, value) ==
    IF field = "price"
    THEN (IF value = 10 THEN "10" ELSE IF value = 25 THEN "25" ELSE "")
    ELSE value

\* request.POST: every key maps to <<>> (not submitted) or <<text>>
Keys == Fields \cup {"tags", "csrfmiddlewaretoken"}
NoData == [k \in Keys |-> <<>>]
Data(pairs) == [k \in Keys |-> IF k \in DOMAIN pairs THEN <<pairs[k]>> ELSE <<>>]
\* bool(request.POST)
Truthy(data) == \E k \in Keys : data[k] # <<>>

\* the host form field's clean(): name = CharField(required), price =
\* DecimalField(required), description = CharField(blank=True)
HostClean(field, raw) ==
    CASE field = "price" ->
            IF raw = <<"10">> THEN [ok |-> TRUE, value |-> 10]
            ELSE IF raw = <<"25">> THEN [ok |-> TRUE, value |-> 25]
            ELSE [ok |-> FALSE, value |-> 0]
      [] field = "name" ->
            IF raw # <<>> /\ raw # <<"">> THEN [ok |-> TRUE, value |-> raw[1]]
            ELSE [ok |-> FALSE, value |-> ""]
      [] OTHER ->
            IF raw # <<>> THEN [ok |-> TRUE, value |-> raw[1]]
            ELSE [ok |-> TRUE, value |-> ""]
\* host validation of submitted data for a set of form fields
HostValid(fields, data) == \A f \in fields : HostClean(f, data[f]).ok

\* a ModelForm: SingleFieldForm(data, instance=obj) is bound, SingleFieldForm(instance=obj) is not
Form(fields, bound, data, instance) ==
    [fields |-> fields, bound |-> bound, data |-> data, instance |-> instance]
\* form.is_valid(): an unbound form is never valid
is_valid(form) == form.bound /\ HostValid(form.fields, form.data)
\* form.errors is non-empty
HasErrors(form) == form.bound /\ ~HostValid(form.fields, form.data)
\* form.instance after validation: the valid cleaned values are set on the instance
Cleaned(form) ==
    [f \in Fields |->
        IF form.bound /\ f \in form.fields /\ HostClean(f, form.data[f]).ok
        THEN HostClean(f, form.data[f]).value
        ELSE form.instance[f]]
\* the value the form widget of a field shows
Shown(form, field) ==
    IF form.bound
    THEN (IF form.data[field] = <<>> THEN "" ELSE form.data[field][1])
    ELSE Display(field, form.instance[field])

\* cleaned_data['tags'] of a bound form: the related keys the client selected
\* (tags is the model's ManyToManyField, blank=True)
CleanedM2M(form) == IF form.data["tags"] = <<>> THEN {} ELSE {form.data["tags"][1]}
\* hasattr(form, 'save_m2m'): a ModelForm gets the attribute only from
\* form.save(commit=False), which htmx_modal never calls
hasattr_save_m2m(form) == FALSE

\* a blank model instance (form_class(..., instance=None))
Blank == Record("", 0, "")

\* get_object_or_404 / objects.get: the row exists
Exists(db, pk) == pk \in Pks /\ db[pk] # <<>>
Row(db, pk) == db[pk][1]
Count(db) == Cardinality({pk \in Pks : db[pk] # <<>>})
\* Model.save(): write every column of the instance to its row
Save(db, pk, obj) == [db EXCEPT ![pk] = <<obj>>]
\* Model.delete()
Delete(db, pk) == [db EXCEPT ![pk] = <<>>]

----------------------------------------------------------------------------
(* Endpoint handlers.  A handler is a function of the table and the        *)
(* request; it yields the response, the table it leaves, and the loads and *)
(* writes it made.                                                         *)

Result(resp, db, next, loads, writes) ==
    [response |-> resp, store |-> db, nextPk |-> next, loads |-> loads, writes |-> writes,
     m2m |-> <<>>]
\* form.save_m2m(): the result also sets the related keys of the saved row
save_m2m(result, pk, form) ==
    [result EXCEPT !.m2m = <<[pk |-> pk, tags |-> CleanedM2M(form)]>>]
\* the many-to-many table a result leaves: a deleted row loses its relations
\* (cascade), a row whose relations were saved holds the saved set
RelatedAfter(rel, r) ==
    [pk \in Pks |->
        IF r.store[pk] = <<>> THEN {}
        ELSE IF r.m2m # <<>> /\ r.m2m[1].pk = pk THEN r.m2m[1].tags
        ELSE rel[pk]]

\* django.http.Http404 raised by get_object_or_404
Http404(db, next, loads) == Result(HttpResponse(TextBody("Not Found"), 404), db, next, loads, 0)
\* an exception the handler does not catch
ServerError(db, next, loads) ==
    Result(HttpResponse(TextBody("Server Error"), 500), db, next, loads, 0)

\* {'level': 'success', 'message': text}
SuccessMessage(text) ==
    JObj(<<KV("level", JStr("success")), KV("message", JStr(text))>>)

\* HtmxModelAdmin.get_field_form(obj, field_name, data)
get_field_form(obj, field_name, data) ==
    IF Truthy(data)
    THEN Form({field_name}, TRUE, data, obj)
    ELSE Form({field_name}, FALSE, NoData, obj)

\* render(request, 'htmx_admin/partials/edit_cell.html', {'form': form, ...})
RenderEditCell(form, field) ==
    HttpResponse(Body("edit_cell", Shown(form, field), HasErrors(form), TRUE), 200)
\* render(request, 'htmx_admin/partials/table_cell.html', {'value': getattr(obj, field), ...})
RenderTableCell(obj, field, is_editable) ==
    HttpResponse(Body("table_cell", Display(field, obj[field]), FALSE, is_editable), 200)
\* render(request, 'htmx_admin/partials/modal_form.html', {'form': form, ...})
RenderModalForm(form) ==
    HttpResponse(Body("modal_form", Shown(form, "name"), HasErrors(form), FALSE), 200)

\* EditPost with the invalid branch leaving the rendered form's status at 200
EditPost_Missing422(db, next, pk, field, form, cellUpdated) ==
    IF is_valid(form)
    THEN Result([RenderTableCell(Cleaned(form), field, TRUE)
                    EXCEPT !.trigger = <<cellUpdated>>],
                Save(db, pk, Cleaned(form)), next, 1, 1)
    ELSE Result(RenderEditCell(form, field), db, next, 1, 0)

\* EditPost saving the instance before looking at the validation result
EditPost_SaveRegardless(db, next, pk, field, form, cellUpdated) ==
    IF is_valid(form)
    THEN Result([RenderTableCell(Cleaned(form), field, TRUE)
                    EXCEPT !.trigger = <<cellUpdated>>],
                Save(db, pk, Cleaned(form)), next, 1, 1)
    ELSE Result([RenderEditCell(form, field) EXCEPT !.status = 422],
                Save(db, pk, Blank), next, 1, 1)

\* the POST branch shared by the inline edit handlers, the record already loaded
EditPost(db, next, pk, field, form, cellUpdated) ==
    IF is_valid(form)
    THEN Result([RenderTableCell(Cleaned(form), field, TRUE)
                    EXCEPT !.trigger = <<cellUpdated>>],
                Save(db, pk, Cleaned(form)), next, 1, 1)
    ELSE Result([RenderEditCell(form, field) EXCEPT !.status = 422], db, next, 1, 0)

\* htmx_edit_field with the allowlist test replaced by a test for a model field
htmx_edit_field_AnyModelField(db, next, method, object_id, field, data) ==
    LET pk == ToPk(object_id) IN
    IF ~Exists(db, pk) THEN Http404(db, next, 1)
    ELSE IF field \notin Fields
    THEN Result(HttpResponse(TextBody("Field not editable"), 403), db, next, 1, 0)
    ELSE IF method = "GET"
    THEN Result(RenderEditCell(get_field_form(Row(db, pk), field, NoData), field),
                db, next, 1, 0)
    ELSE IF method = "POST"
    THEN EditPost(db, next, pk, field, get_field_form(Row(db, pk), field, data),
                  <<W("cellUpdated")>>)
    ELSE Result(HttpResponse(TextBody("Method not allowed"), 405), db, next, 1, 0)

\* HtmxModelAdmin.htmx_edit_field(request, object_id, field)
htmx_edit_field(db, next, method, object_id, field, data) ==
    LET pk == ToPk(object_id) IN
    IF ~Exists(db, pk) THEN Http404(db, next, 1)
    ELSE IF field \notin list_editable_htmx
    THEN Result(HttpResponse(TextBody("Field not editable"), 403), db, next, 1, 0)
    ELSE IF method = "GET"
    THEN Result(RenderEditCell(get_field_form(Row(db, pk), field, NoData), field),
                db, next, 1, 0)
    ELSE IF method = "POST"
    THEN EditPost(db, next, pk, field, get_field_form(Row(db, pk), field, data),
                  <<W("cellUpdated")>>)
    ELSE Result(HttpResponse(TextBody("Method not allowed"), 405), db, next, 1, 0)

\* HtmxInlineEditView.get_field_form(obj, field_name, data)
HtmxInlineEditView_get_field_form(obj, field_name, data) ==
    IF Truthy(data)
    THEN Form({field_name}, TRUE, data, obj)
    ELSE Form({field_name}, FALSE, NoData, obj)

\* HtmxInlineEditView.get(request, pk, field)
HtmxInlineEditView_get(db, next, object_id, field) ==
    LET pk == ToPk(object_id) IN
    IF field \notin editable_fields
    THEN Result(HttpResponse(TextBody("Field not editable"), 403), db, next, 0, 0)
    ELSE IF ~Exists(db, pk) THEN Http404(db, next, 1)
    ELSE Result(RenderEditCell(HtmxInlineEditView_get_field_form(Row(db, pk), field, NoData),
                               field),
                db, next, 1, 0)

\* HtmxInlineEditView.post(request, pk, field)
HtmxInlineEditView_post(db, next, object_id, field, data) ==
    LET pk == ToPk(object_id) IN
    IF field \notin editable_fields
    THEN Result(HttpResponse(TextBody("Field not editable"), 403), db, next, 0, 0)
    ELSE IF ~Exists(db, pk) THEN Http404(db, next, 1)
    ELSE EditPost(db, next, pk, field,
                  HtmxInlineEditView_get_field_form(Row(db, pk), field, data),
                  <<W("cellUpdated")>>)

\* HtmxModelAdmin.htmx_delete(request, object_id)
htmx_delete(db, next, method, object_id) ==
    LET pk == ToPk(object_id) IN
    IF ~Exists(db, pk) THEN Http404(db, next, 1)
    ELSE LET obj_display == Label(Row(db, pk)) IN
         Result([HttpResponse(NoBody, 204) EXCEPT !.trigger =
                    <<Dumps(JObj(<<
                        KV("showMessage",
                           SuccessMessage(obj_display \o " deleted successfully.")),
                        KV("refreshTable", JTrue)>>))>>],
                Delete(db, pk), next, 1, 1)

\* HtmxDeleteView.post(request, pk)
HtmxDeleteView_post(db, next, object_id) ==
    LET pk == ToPk(object_id) IN
    IF ~Exists(db, pk) THEN ServerError(db, next, 1)
    ELSE LET obj_display == Label(Row(db, pk)) IN
         Result(htmx_response(NoBody, 204, <<
                    KV("rowDeleted", JObj(<<KV("id", JStr(str(pk)))>>)),
                    KV("showMessage",
                       SuccessMessage(obj_display \o " deleted successfully."))>>),
                Delete(db, pk), next, 1, 1)

\* HtmxDeleteMixin.delete(request): get_object() raises Http404 when no row matches
HtmxDeleteMixin_delete(db, next, object_id) ==
    LET pk == ToPk(object_id) IN
    IF ~Exists(db, pk) THEN Http404(db, next, 1)
    ELSE LET obj_display == Label(Row(db, pk)) IN
         Result(htmx_response(NoBody, 204, <<
                    KV("rowDeleted", JObj(<<KV("id", JStr(str(pk)))>>)),
                    KV("showMessage",
                       SuccessMessage(obj_display \o " deleted successfully."))>>),
                Delete(db, pk), next, 1, 1)

\* the fields of the modal form: get_form(request, obj), narrowed to modal_fields
ModalFormFields == IF modal_fields = {} THEN Fields ELSE modal_fields

\* HtmxModelAdmin.htmx_modal(request, object_id)
htmx_modal(db, next, method, object_id, data) ==
    LET add == object_id = "add"
        pk == IF add THEN next ELSE ToPk(object_id)
        loads == IF add THEN 0 ELSE 1
    IN
    IF ~add /\ ~Exists(db, pk) THEN Http404(db, next, 1)
    ELSE LET obj == IF add THEN Blank ELSE Row(db, pk) IN
         IF method = "GET"
         THEN Result(RenderModalForm(Form(ModalFormFields, FALSE, NoData, obj)),
                     db, next, loads, 0)
         ELSE IF method = "POST"
         THEN LET form == Form(ModalFormFields, TRUE, data, obj) IN
              IF is_valid(form)
              THEN LET saved ==
                        Result([HttpResponse(NoBody, 200) EXCEPT !.trigger =
                            <<Dumps(JObj(<<
                                KV("showMessage",
                                   SuccessMessage(Label(Cleaned(form))
                                                  \o " saved successfully.")),
                                KV("refreshTable", JTrue),
                                KV("modalClosed", JTrue)>>))>>],
                          Save(db, pk, Cleaned(form)),
                          IF add THEN next + 1 ELSE next, loads, 1)
                   IN IF hasattr_save_m2m(form) THEN save_m2m(saved, pk, form) ELSE saved
              ELSE Result([RenderModalForm(form) EXCEPT !.status = 422],
                          db, next, loads, 0)
         ELSE Result(HttpResponse(TextBody("Method not allowed"), 405), db, next, loads, 0)

\* HtmxModalView.get saving the blank instance it builds for 'add'
HtmxModalView_get_Creates(db, next, object_id) ==
    LET add == object_id = "add"
        pk == IF add THEN next ELSE ToPk(object_id)
    IN
    IF ~add /\ ~Exists(db, pk) THEN Http404(db, next, 1)
    ELSE Result(RenderModalForm(Form(Fields, FALSE, NoData,
                                     IF add THEN Blank ELSE Row(db, pk))),
                IF add THEN Save(db, pk, Blank) ELSE db,
                IF add THEN next + 1 ELSE next, IF add THEN 0 ELSE 1,
                IF add THEN 1 ELSE 0)

\* HtmxModalView.get(request, object_id)
HtmxModalView_get(db, next, object_id) ==
    LET add == object_id = "add"
        pk == IF add THEN next ELSE ToPk(object_id)
    IN
    IF ~add /\ ~Exists(db, pk) THEN Http404(db, next, 1)
    ELSE Result(RenderModalForm(Form(Fields, FALSE, NoData,
                                     IF add THEN Blank ELSE Row(db, pk))),
                db, next, IF add THEN 0 ELSE 1, 0)

\* HtmxModalView.post resolving every token to "create"
HtmxModalView_post_AlwaysCreate(db, next, object_id, data) ==
    LET form == Form(Fields, TRUE, data, Blank) IN
    IF is_valid(form)
    THEN save_m2m(
           Result(htmx_response(NoBody, 204, <<
                   KV("modalClosed", JTrue),
                   KV("tableRefresh", JTrue),
                   KV("showMessage",
                      SuccessMessage(Label(Cleaned(form)) \o " saved successfully."))>>),
                Save(db, next, Cleaned(form)), next + 1, 0, 1),
           next, form)
    ELSE Result([RenderModalForm(form) EXCEPT !.status = 422], db, next, 0, 0)

\* HtmxModalView.post(request, object_id)
HtmxModalView_post(db, next, object_id, data) ==
    LET add == object_id = "add"
        pk == IF add THEN next ELSE ToPk(object_id)
        loads == IF add THEN 0 ELSE 1
    IN
    IF ~add /\ ~Exists(db, pk) THEN Http404(db, next, 1)
    ELSE LET form == Form(Fields, TRUE, data, IF add THEN Blank ELSE Row(db, pk)) IN
         IF is_valid(form)
         THEN save_m2m(
                Result(htmx_response(NoBody, 204, <<
                        KV("modalClosed", JTrue),
                        KV("tableRefresh", JTrue),
                        KV("showMessage",
                           SuccessMessage(Label(Cleaned(form)) \o " saved successfully."))>>),
                     Save(db, pk, Cleaned(form)),
                     IF add THEN next + 1 ELSE next, loads, 1),
                pk, form)
         ELSE Result([RenderModalForm(form) EXCEPT !.status = 422], db, next, loads, 0)

\* getattr(obj, field) as the cell template shows it; id is the primary key
CellValue(obj, pk, field) == IF field = "id" THEN str(pk) ELSE Display(field, obj[field])

\* htmx_get_cell answering 403 for a field outside list_editable_htmx
htmx_get_cell_Guarded(db, next, object_id, field) ==
    LET pk == ToPk(object_id) IN
    IF ~Exists(db, pk) THEN Http404(db, next, 1)
    ELSE IF field \notin list_editable_htmx
    THEN Result(HttpResponse(TextBody("Field not editable"), 403), db, next, 1, 0)
    ELSE Result(HttpResponse(Body("table_cell", CellValue(Row(db, pk), pk, field), FALSE, TRUE),
                             200),
                db, next, 1, 0)

\* HtmxModelAdmin.htmx_get_cell(request, object_id, field)
htmx_get_cell(db, next, object_id, field) ==
    LET pk == ToPk(object_id) IN
    IF ~Exists(db, pk) THEN Http404(db, next, 1)
    ELSE Result(HttpResponse(Body("table_cell", CellValue(Row(db, pk), pk, field), FALSE,
                                  field \in list_editable_htmx),
                             200),
                db, next, 1, 0)

RECURSIVE Labels(_, _)
\* the rows the change list shows, by ascending key
Labels(db, pk) ==
    IF pk > MaxPk THEN ""
    ELSE (IF Exists(db, pk) THEN Label(Row(db, pk)) \o ";" ELSE "") \o Labels(db, pk + 1)

\* HtmxModelAdmin.htmx_table_body(request)
htmx_table_body(db, next) ==
    Result(HttpResponse(Body("table_body", Labels(db, 1), FALSE, FALSE), 200), db, next, 0, 0)

\* HtmxFormMixin.success_message
success_message == "Saved successfully."
\* get_success_message ignoring the saved object
get_success_message_Default(object) == success_message
\* HtmxFormMixin.get_success_message(); self.object is <<>> when unset or
\* falsy (None), else <<object>>
get_success_message(object) ==
    IF object # <<>> THEN Label(object[1]) \o " saved successfully." ELSE success_message

\* FormView.form_invalid: render_to_response(get_context_data(form=form))
RenderForm(form) ==
    HttpResponse(Body("form", Shown(form, "name"), HasErrors(form), FALSE), 200)

\* HtmxFormMixin.form_invalid(form)
form_invalid(db, next, form) ==
    Result([RenderForm(form) EXCEPT !.status = 422], db, next, 0, 0)

\* HtmxFormMixin.form_valid(form); returns_object tells whether the host
\* form's save() returns the saved instance or nothing
form_valid(db, next, form, returns_object) ==
    LET object == IF returns_object THEN <<Cleaned(form)>> ELSE <<>> IN
    save_m2m(
        Result(htmx_response(NoBody, 204, <<
                    KV("formSuccess", JTrue),
                    KV("showMessage", SuccessMessage(get_success_message(object)))>>),
               Save(db, next, Cleaned(form)), next + 1, 0, 1),
        next, form)

\* HtmxFormView.post (ProcessFormView.post): validate, then form_valid or form_invalid
HtmxFormView_post(db, next, data, returns_object) ==
    LET form == Form(Fields, TRUE, data, Blank) IN
    IF is_valid(form) THEN form_valid(db, next, form, returns_object)
    ELSE form_invalid(db, next, form)

----------------------------------------------------------------------------
(* Spec: fragment requests against the table *)

Methods == {"GET", "POST", "DELETE"}
\* field names a URL can carry: the model's fields and a name that is no field
FieldNames == Fields \cup {"id"}
\* bodies a client posts to the inline edit endpoint of a field
EditData(field) ==
    {NoData, Data([csrfmiddlewaretoken |-> "t"])}
    \cup (CASE field = "price" -> {Data([price |-> v]) : v \in {"10", "25", "abc"}}
            [] field = "name" -> {Data([name |-> v]) : v \in {"A", "B", ""}}
            [] field = "description" -> {Data([description |-> v]) : v \in {"d", ""}}
            [] OTHER -> {})
\* bodies a client posts to the modal endpoint
ModalData ==
    {[k \in Keys |-> CASE k = "name" -> n [] k = "price" -> p [] OTHER -> <<>>] :
        n \in {<<>>, <<"A">>, <<"B">>}, p \in {<<>>, <<"25">>, <<"abc">>}}
    \cup {Data([name |-> n, price |-> "25", description |-> "d"]) : n \in {"A", "B"}}
    \cup {Data([name |-> "A", price |-> p, tags |-> "1"]) : p \in {"25", "abc"}}
\* what request.POST holds for a method
Posted(method, bodies) == IF method = "POST" THEN bodies ELSE {NoData}

Request(endpoint, method, object_id, field, data) ==
    [endpoint |-> endpoint, method |-> method, object_id |-> object_id,
     field |-> field, data |-> data]

HandleResult(req, r) ==
    /\ request' = req
    /\ before' = store
    /\ store' = r.store
    /\ related' = RelatedAfter(related, r)
    /\ nextPk' = r.nextPk
    /\ response' = r.response
    /\ access' = [loads |-> r.loads, writes |-> r.writes]
    /\ served' = served + 1
    /\ UNCHANGED <<mwVars, call, inflight>>

\* the host dispatches one request to a handler and sends its response
Handle(req, result) ==
    /\ served < MaxRequests
    /\ req.object_id = "add" => nextPk <= MaxPk
    /\ \E r \in {result} : HandleResult(req, r)

EditFieldRequest ==
    /\ served < MaxRequests
    /\ \E method \in Methods, object_id \in ObjectIds, field \in FieldNames :
      \E data \in Posted(method, EditData(field)) :
        Handle(Request("admin_edit", method, object_id, field, data),
               htmx_edit_field(store, nextPk, method, object_id, field, data))

InlineEditViewGet ==
    /\ served < MaxRequests
    /\ \E object_id \in ObjectIds, field \in FieldNames :
        Handle(Request("view_edit", "GET", object_id, field, NoData),
               HtmxInlineEditView_get(store, nextPk, object_id, field))

InlineEditViewPost ==
    /\ served < MaxRequests
    /\ \E object_id \in ObjectIds, field \in FieldNames :
      \E data \in EditData(field) :
        Handle(Request("view_edit", "POST", object_id, field, data),
               HtmxInlineEditView_post(store, nextPk, object_id, field, data))

DeleteRequest ==
    /\ served < MaxRequests
    /\ \E method \in Methods, object_id \in ObjectIds :
        Handle(Request("admin_delete", method, object_id, "", NoData),
               htmx_delete(store, nextPk, method, object_id))

DeleteViewPost ==
    /\ served < MaxRequests
    /\ \E object_id \in ObjectIds :
        Handle(Request("view_delete", "POST", object_id, "", NoData),
               HtmxDeleteView_post(store, nextPk, object_id))

DeleteMixinDelete ==
    /\ served < MaxRequests
    /\ \E object_id \in ObjectIds :
        Handle(Request("mixin_delete", "POST", object_id, "", NoData),
               HtmxDeleteMixin_delete(store, nextPk, object_id))

ModalRequest ==
    /\ served < MaxRequests
    /\ \E method \in Methods, object_id \in ObjectIds \cup {"add"} :
      \E data \in Posted(method, ModalData) :
        Handle(Request("admin_modal", method, object_id, "", data),
               htmx_modal(store, nextPk, method, object_id, data))

ModalViewGet ==
    /\ served < MaxRequests
    /\ \E object_id \in ObjectIds \cup {"add"} :
        Handle(Request("view_modal", "GET", object_id, "", NoData),
               HtmxModalView_get(store, nextPk, object_id))

ModalViewPost ==
    /\ served < MaxRequests
    /\ \E object_id \in ObjectIds \cup {"add"}, data \in ModalData :
        Handle(Request("view_modal", "POST", object_id, "", data),
               HtmxModalView_post(store, nextPk, object_id, data))

\* the methods a standalone view defines a handler for
ViewHandlers(endpoint) ==
    IF endpoint = "view_delete" THEN {"POST"} ELSE {"GET", "POST"}
\* View.dispatch for a method the view defines no handler for
http_method_not_allowed(db, next) ==
    Result(HttpResponse(NoBody, 405), db, next, 0, 0)

ViewMethodNotAllowed ==
    /\ served < MaxRequests
    /\ \E endpoint \in {"view_edit", "view_delete", "view_modal"} :
      \E method \in Methods \ ViewHandlers(endpoint),
         object_id \in ObjectIds \cup (IF endpoint = "view_modal" THEN {"add"} ELSE {}),
         field \in (IF endpoint = "view_edit" THEN FieldNames ELSE {""}) :
        Handle(Request(endpoint, method, object_id, field, NoData),
               http_method_not_allowed(store, nextPk))

\* the client refetches a cell with hx-get
GetCellRequest ==
    /\ served < MaxRequests
    /\ \E object_id \in ObjectIds, field \in FieldNames :
        Handle(Request("admin_cell", "GET", object_id, field, NoData),
               htmx_get_cell(store, nextPk, object_id, field))

\* the client reloads the table with hx-get
TableBodyRequest ==
        Handle(Request("admin_table", "GET", "", "", NoData),
               htmx_table_body(store, nextPk))

\* the routed form views: one whose form's save() returns the instance, one
\* whose form's save() returns nothing
FormViews == {"form_view", "form_view_custom"}

\* bodies a client posts to a form view: valid, valid with relations, invalid
FormData ==
    {Data([name |-> "B", price |-> "25"]),
     Data([name |-> "A", price |-> "25", tags |-> "1"]),
     Data([name |-> "A", price |-> "abc"])}

FormViewPost ==
    /\ served < MaxRequests
    /\ \E endpoint \in FormViews, data \in FormData :
        Handle(Request(endpoint, "POST", "add", "", data),
               HtmxFormView_post(store, nextPk, data, endpoint = "form_view"))

\* the table when the server starts: two rows, the other keys unused
InitStore ==
    [pk \in Pks |->
        CASE pk = 1 -> <<Record("A", 10, "")>>
          [] pk = 2 -> <<Record("B", 25, "d")>>
          [] OTHER -> <<>>]

\* the relations when the server starts: row 2 is related to key 1
InitRelated == [pk \in Pks |-> IF pk = 2 THEN {"1"} ELSE {}]

\* a worker's request: its position in the handler, the instance it
\* loaded (<<>> when none) and the status it answered (0 when none yet)
Inflight(req, pc, obj, status) == [req |-> req, pc |-> pc, obj |-> obj, status |-> status]
\* the workers, each handling one request
Workers == 1..MaxWorkers
\* no worker has a request
Idle == <<>>

InitDb ==
    /\ inflight = Idle
    /\ store = InitStore
    /\ related = InitRelated
    /\ nextPk = 3
    /\ before = InitStore
    /\ request = Request("", "", "", "", NoData)
    /\ access = [loads |-> 0, writes |-> 0]
    /\ served = 0

\* a settings.MIDDLEWARE order of the three middlewares, outermost first
DefaultOrder == <<"vary", "redirect", "message">>

\* htmx_response(content, status, **triggers) about to be called / having returned
Call(content, status, triggers, returned) ==
    [content |-> content, status |-> status, triggers |-> triggers, returned |-> returned]
\* no direct call is made
NoCall == Call(NoBody, 200, <<>>, FALSE)

Init ==
    /\ InitDb
    /\ call = NoCall
    /\ response = HttpResponse(NoBody, 200)
    /\ order = DefaultOrder
    /\ pending = <<>>
    /\ ran = <<>>
    /\ hxRequest = <<>>
    /\ messages = <<>>
    /\ msgIn = <<>>
    /\ inner = HttpResponse(NoBody, 200)
    /\ mwIn = HttpResponse(NoBody, 200)

Next ==
    \/ EditFieldRequest
    \/ InlineEditViewGet
    \/ InlineEditViewPost
    \/ DeleteRequest
    \/ DeleteViewPost
    \/ DeleteMixinDelete
    \/ ModalRequest
    \/ ModalViewGet
    \/ ModalViewPost
    \/ ViewMethodNotAllowed
    \/ GetCellRequest
    \/ TableBodyRequest
    \/ FormViewPost

Spec == Init /\ [][Next]_vars

----------------------------------------------------------------------------
(* Properties of the fragment endpoints (checked under Spec) *)

IsEdit == request.endpoint \in {"admin_edit", "view_edit"}
IsDelete == request.endpoint \in {"admin_delete", "view_delete", "mixin_delete"}
IsModal == request.endpoint \in {"admin_modal", "view_modal"}
\* the Editable-Field Set of the endpoint group the request went to
Allowlist == IF request.endpoint = "admin_edit" THEN list_editable_htmx ELSE editable_fields
\* the record the request names, as it was when the request arrived
TargetPk == ToPk(request.object_id)
TargetExisted == request.object_id # "add" /\ Exists(before, TargetPk)
\* the form fields of the endpoint the request went to
RequestFormFields ==
    CASE IsEdit -> {request.field}
      [] request.endpoint = "admin_modal" -> ModalFormFields
      [] OTHER -> Fields
\* the request got as far as validating posted data
ReachedValidation ==
    /\ request.method = "POST"
    /\ \/ IsEdit /\ request.field \in Allowlist /\ TargetExisted
       \/ IsModal /\ (request.object_id = "add" \/ TargetExisted)

\* C1: a GET or POST to the edit-field endpoint for a field outside the
\* endpoint's allowlist and an existing record is answered 403 and changes
\* no persisted record.
C1_NonEditableFieldForbidden ==
    (/\ IsEdit
     /\ request.method \in {"GET", "POST"}
     /\ request.field \notin Allowlist
     /\ TargetExisted)
    => (response.status = 403 /\ store = before)

C1_Witness ==
    /\ request.endpoint = "admin_edit"
    /\ request.method = "POST"
    /\ request.field = "name"
    /\ request.data["name"] = <<"B">>
    /\ TargetExisted
    /\ response.status = 403

\* C2: a POST to the edit-field endpoint for an allowlisted field whose
\* submitted data passes host validation is answered 200 with the read-only
\* cell fragment showing the new value, the record's field equals the
\* submitted value, and HX-Trigger carries cellUpdated.
C2_ValidEditSaves ==
    (/\ IsEdit
     /\ request.method = "POST"
     /\ request.field \in Allowlist
     /\ TargetExisted
     /\ HostValid({request.field}, request.data))
    => LET submitted == HostClean(request.field, request.data[request.field]).value IN
       /\ response.status = 200
       /\ Exists(store, TargetPk)
       /\ Row(store, TargetPk)[request.field] = submitted
       /\ response.body.template = "table_cell"
       /\ response.body.value = Display(request.field, submitted)
       /\ response.trigger = <<(<<W("cellUpdated")>>)>>

\* C3: a POST to the edit-field or modal endpoint whose submitted data fails
\* host validation is answered 422 with the re-rendered form fragment and no
\* HX-Trigger, and the table (rows and row count) is as it was.
C3_InvalidSubmissionUnprocessable ==
    (ReachedValidation /\ ~HostValid(RequestFormFields, request.data))
    => /\ response.status = 422
       /\ response.body.template = (IF IsEdit THEN "edit_cell" ELSE "modal_form")
       /\ response.trigger = <<>>
       /\ store = before
       /\ Count(store) = Count(before)

C3_Witness ==
    /\ request.endpoint = "admin_edit"
    /\ request.method = "POST"
    /\ request.field = "price"
    /\ request.data["price"] = <<"abc">>
    /\ TargetExisted
    /\ response.status = 422
    /\ response.body.errors

\* C4: a delete request for an existing record is answered 204, removes
\* exactly that record, and HX-Trigger holds rowDeleted keyed with the
\* record's identity and a success showMessage with the label the record had.
C4_DeleteSignalsRowDeleted ==
    (IsDelete /\ request.method = "POST" /\ TargetExisted)
    => /\ response.status = 204
       /\ store = Delete(before, TargetPk)
       /\ Count(store) = Count(before) - 1
       /\ TriggerIsObject(response)
       /\ DictHas(TriggerEvents(response), "rowDeleted")
       /\ DictGet(TriggerEvents(response), "rowDeleted")
            = JObj(<<KV("id", JStr(request.object_id))>>)
       /\ DictHas(TriggerEvents(response), "showMessage")
       /\ DictGet(TriggerEvents(response), "showMessage")
            = SuccessMessage(Label(Row(before, TargetPk)) \o " deleted successfully.")

\* C5: a POST to the modal endpoint with token 'add' and data that passes
\* host validation is answered 204 with an empty body, adds exactly one
\* record, and HX-Trigger holds modalClosed and a table-refresh event.
C5_ModalCreateNoContent ==
    (/\ IsModal
     /\ request.method = "POST"
     /\ request.object_id = "add"
     /\ HostValid(RequestFormFields, request.data))
    => /\ response.status = 204
       /\ response.body = NoBody
       /\ Count(store) = Count(before) + 1
       /\ TriggerIsObject(response)
       /\ DictHas(TriggerEvents(response), "modalClosed")
       /\ \/ DictHas(TriggerEvents(response), "tableRefresh")
          \/ DictHas(TriggerEvents(response), "refreshTable")

\* C10: a field-edit request for a field outside the allowlist is answered
\* 403 without loading any record, whether or not the record exists.
C10_ForbiddenBeforeDataAccess ==
    (IsEdit /\ request.field \notin Allowlist)
    => (response.status = 403 /\ access.loads = 0)

\* the methods the endpoint the request went to supports
SupportedMethods == IF IsDelete THEN {"POST"} ELSE {"GET", "POST"}
\* the request passes the endpoint's guards: its record exists (or the token
\* is 'add') and, for a field edit, the field is allowlisted
PassesGuards ==
    /\ request.object_id = "add" \/ TargetExisted
    /\ IsEdit => request.field \in Allowlist

\* C16: a request with a method the endpoint does not support (anything but
\* GET and POST for edit-field and modal, anything but POST for delete) is
\* answered 405 and changes no record.
C16_UnsupportedMethodRejected ==
    (/\ IsEdit \/ IsDelete \/ IsModal
     /\ request.method \notin SupportedMethods
     /\ PassesGuards)
    => (response.status = 405 /\ store = before)

\* C17: a delete request to HtmxModelAdmin.htmx_delete or HtmxDeleteView.post
\* for an identity with no record is answered 404, removes nothing and has
\* no HX-Trigger.
C17_DeleteMissingNotFound ==
    (/\ request.endpoint \in {"admin_delete", "view_delete"}
     /\ request.method = "POST"
     /\ ~TargetExisted)
    => /\ response.status = 404
       /\ store = before
       /\ response.trigger = <<>>

\* the row a valid modal POST saved
SavedPk == IF request.object_id = "add" THEN nextPk - 1 ELSE TargetPk
\* a modal POST that reached validation and passed it
ValidModalPost ==
    /\ IsModal
    /\ ReachedValidation
    /\ HostValid(RequestFormFields, request.data)

\* C18: after a valid POST to the modal endpoint the saved record exists
\* and its stored many-to-many set equals the submitted one.
C18_ModalSavesRelations ==
    ValidModalPost
    => /\ Exists(store, SavedPk)
       /\ related[SavedPk]
            = (IF request.data["tags"] = <<>> THEN {} ELSE {request.data["tags"][1]})

\* C19: the modal endpoint (GET or POST) loads nothing for the token 'add'
\* and a valid POST then adds exactly one record, leaving the others as
\* they were; for any other token it loads that record, answers 404 and
\* changes nothing when the record is absent, and a valid POST sets that
\* record's fields to the submitted values while the count and the other
\* records stay the same.
C19_ModalTokenResolution ==
    (IsModal /\ request.method \in {"GET", "POST"})
    => /\ request.object_id = "add"
            => /\ access.loads = 0
               /\ ValidModalPost
                    => /\ Count(store) = Count(before) + 1
                       /\ \A pk \in Pks : Exists(before, pk) => store[pk] = before[pk]
       /\ request.object_id # "add"
            => /\ ~TargetExisted => (response.status = 404 /\ store = before)
               /\ TargetExisted => access.loads = 1
               /\ ValidModalPost
                    => /\ Count(store) = Count(before)
                       /\ Exists(store, TargetPk)
                       /\ \A f \in RequestFormFields :
                            Row(store, TargetPk)[f] = HostClean(f, request.data[f]).value
                       /\ \A pk \in Pks \ {TargetPk} : store[pk] = before[pk]
       /\ ~ValidModalPost => store = before

C19_Witness ==
    /\ request.endpoint = "admin_modal"
    /\ request.method = "POST"
    /\ request.object_id = "2"
    /\ ValidModalPost
    /\ access.loads = 1
    /\ Row(before, 2) = Record("B", 25, "d")
    /\ Row(store, 2) = Record("A", 25, "")
    /\ Count(store) = 2

\* C21: the cell refetch endpoint answers 200 with the read-only cell
\* fragment showing the field's stored value for every existing record and
\* every field, allowlisted or not, with is_editable = (field in allowlist);
\* it answers 404 for an absent record and never changes the table.
C21_CellRefetchReadOnly ==
    request.endpoint = "admin_cell"
    => /\ store = before
       /\ access.writes = 0
       /\ response.trigger = <<>>
       /\ TargetExisted
            => /\ response.status = 200
               /\ response.body.template = "table_cell"
               /\ response.body.is_editable = (request.field \in list_editable_htmx)
               /\ request.field \in Fields
                    => response.body.value
                         = Display(request.field, Row(before, TargetPk)[request.field])
       /\ ~TargetExisted => response.status = 404

C21_Witness ==
    /\ request.endpoint = "admin_cell"
    /\ request.object_id = "2"
    /\ request.field = "name"
    /\ response.status = 200
    /\ response.body = Body("table_cell", "B", FALSE, FALSE)

\* C22: every request makes at most one load of its target record and at
\* most one persisted mutation (a save or a delete of one row), and a
\* response with status 403, 404, 405 or 422 comes without any mutation.
C22_AtMostOneLoadAndSave ==
    served > 0
    => /\ access.loads <= 1
       /\ access.writes <= 1
       /\ Cardinality({pk \in Pks : store[pk] # before[pk]}) <= access.writes
       /\ response.status \in {403, 404, 405, 422}
            => (access.writes = 0 /\ store = before)

C22_Witness ==
    /\ request.endpoint = "admin_edit"
    /\ request.method = "POST"
    /\ request.field = "price"
    /\ request.data["price"] = <<"25">>
    /\ request.object_id = "1"
    /\ access = [loads |-> 1, writes |-> 1]
    /\ Row(before, 1).price = 10
    /\ Row(store, 1).price = 25
    /\ served = 2

\* the request went to a form view
IsFormView == request.endpoint \in FormViews

\* C24: form_valid saves once and answers 204 whose HX-Trigger holds
\* formSuccess = true and a success showMessage whose text is
\* '<object> saved successfully.' when save() returned the object and the
\* view's success_message otherwise; form_invalid answers 422 with the
\* re-rendered form and saves nothing.
C24_FormMixinOutcomes ==
    IsFormView
    => IF HostValid(Fields, request.data)
       THEN /\ response.status = 204
            /\ access.writes = 1
            /\ Count(store) = Count(before) + 1
            /\ Exists(store, nextPk - 1)
            /\ TriggerIsObject(response)
            /\ DictHas(TriggerEvents(response), "formSuccess")
            /\ DictGet(TriggerEvents(response), "formSuccess") = JTrue
            /\ DictHas(TriggerEvents(response), "showMessage")
            /\ DictGet(TriggerEvents(response), "showMessage")
                 = SuccessMessage(
                     IF request.endpoint = "form_view"
                     THEN Label(Row(store, nextPk - 1)) \o " saved successfully."
                     ELSE "Saved successfully.")
       ELSE /\ response.status = 422
            /\ response.body.template = "form"
            /\ response.body.errors
            /\ response.trigger = <<>>
            /\ access.writes = 0
            /\ store = before

C24_Witness ==
    /\ request.endpoint = "form_view"
    /\ request.data["name"] = <<"B">>
    /\ response.status = 204
    /\ Row(store, 3) = Record("B", 25, "")
    /\ ~Exists(before, 3)
    /\ DictGet(TriggerEvents(response), "showMessage")
         = SuccessMessage("B saved successfully.")

\* C25: on every POST to the edit-field endpoint for an allowlisted field of
\* an existing record the form is bound to the submitted data, empty or
\* not: data valid for the field gives 200 with the value persisted, data
\* invalid for the field gives 422 with validation errors on the form.
C25_EditFormAlwaysBound ==
    (/\ IsEdit
     /\ request.method = "POST"
     /\ request.field \in Allowlist
     /\ TargetExisted)
    => IF HostValid({request.field}, request.data)
       THEN /\ response.status = 200
            /\ Exists(store, TargetPk)
            /\ Row(store, TargetPk)[request.field]
                 = HostClean(request.field, request.data[request.field]).value
       ELSE /\ response.status = 422
            /\ response.body.errors

\* C28: a GET to the edit-field endpoint, to the modal endpoint ('add' or
\* an identity) or to the table-body endpoint changes and creates no
\* record, however often it is repeated, and its response has no
\* HX-Trigger.
C28_GetIsReadOnly ==
    (/\ request.method = "GET"
     /\ IsEdit \/ IsModal \/ request.endpoint = "admin_table")
    => /\ store = before
       /\ Count(store) = Count(before)
       /\ access.writes = 0
       /\ response.trigger = <<>>

C28_Witness ==
    /\ request.endpoint = "view_modal"
    /\ request.method = "GET"
    /\ request.object_id = "add"
    /\ served = 2
    /\ response.status = 200
    /\ response.body.template = "modal_form"
    /\ store = InitStore

----------------------------------------------------------------------------
(* The response middlewares.  Each __call__ obtains the inner response     *)
(* from get_response and post-processes it.                                *)

\* bool(request.headers.get('HX-Request')): the test the middlewares make
HxTruthy(hx) == hx # <<>> /\ hx[1] # ""
\* HtmxResponseMixin.is_htmx_request(request)
is_htmx_request(hx) == hx = <<"true">>

Message(level, text) == [level |-> level, message |-> text]
\* [{'level': message.level_tag, 'message': str(message)} for message in storage]
MessageList(storage) ==
    JList([i \in 1..Len(storage) |->
            JObj(<<KV("level", JStr(storage[i].level)),
                   KV("message", JStr(storage[i].message))>>)])

\* the python statement triggers['showMessages'] = message_list on a decoded
\* value: item assignment works on a dict and raises TypeError on anything else
SetShowMessages(triggers, message_list) ==
    IF triggers.t = "obj"
    THEN [ok |-> TRUE, v |-> JObj(DictSet(triggers.kv, "showMessages", message_list))]
    ELSE [ok |-> FALSE, v |-> triggers]

\* the response Django's handler makes of an exception a middleware lets escape
UnhandledException == HttpResponse(TextBody("Server Error"), 500)

\* HtmxMessageMiddleware.__call__ writing a fresh HX-Trigger instead of merging
HtmxMessageMiddleware_call_Overwrite(resp, hx, storage) ==
    IF ~HxTruthy(hx) \/ storage = <<>> THEN [response |-> resp, messages |-> storage]
    ELSE [response |-> [resp EXCEPT !.trigger =
                          <<Dumps(JObj(<<KV("showMessages", MessageList(storage))>>))>>],
          messages |-> <<>>]

\* HtmxMessageMiddleware.__call__ without the `if storage:` / `if message_list:` tests
HtmxMessageMiddleware_call_EmptyList(resp, hx, storage) ==
    IF ~HxTruthy(hx) THEN [response |-> resp, messages |-> storage]
    ELSE LET existing == IF resp.trigger = <<>> THEN <<P("{"), P("}")>> ELSE resp.trigger[1]
             parsed == Loads(existing)
             triggers ==
                IF parsed.ok THEN parsed.v
                ELSE IF existing # <<>> /\ existing # <<P("{"), P("}")>>
                THEN JObj(<<KV(Text(existing), JTrue)>>)
                ELSE JObj(<<>>)
             set == SetShowMessages(triggers, MessageList(storage))
         IN
         IF set.ok
         THEN [response |-> [resp EXCEPT !.trigger = <<Dumps(set.v)>>], messages |-> <<>>]
         ELSE [response |-> UnhandledException, messages |-> <<>>]

\* HtmxMessageMiddleware.__call__ after get_response: the response it returns
\* and the message storage it leaves
HtmxMessageMiddleware_call(resp, hx, storage) ==
    IF ~HxTruthy(hx) THEN [response |-> resp, messages |-> storage]
    ELSE IF storage = <<>> THEN [response |-> resp, messages |-> storage]
    ELSE LET message_list == MessageList(storage)
             existing == IF resp.trigger = <<>> THEN <<P("{"), P("}")>> ELSE resp.trigger[1]
             parsed == Loads(existing)
             triggers ==
                IF parsed.ok THEN parsed.v
                ELSE IF existing # <<>> /\ existing # <<P("{"), P("}")>>
                THEN JObj(<<KV(Text(existing), JTrue)>>)
                ELSE JObj(<<>>)
             set == SetShowMessages(triggers, message_list)
         IN
         IF set.ok
         THEN [response |-> [resp EXCEPT !.trigger = <<Dumps(set.v)>>], messages |-> <<>>]
         ELSE [response |-> UnhandledException, messages |-> <<>>]

\* HtmxRedirectMiddleware.__call__ adding HX-Redirect to the redirect it received
HtmxRedirectMiddleware_call_KeepOriginal(resp, hx) ==
    IF HxTruthy(hx) /\ 300 <= resp.status /\ resp.status < 400
       /\ resp.location # <<>> /\ resp.location # <<"">>
    THEN [resp EXCEPT !.status = 204, !.redirect = resp.location]
    ELSE resp

\* HtmxRedirectMiddleware.__call__ without the `if redirect_url:` test
HtmxRedirectMiddleware_call_AnyRedirect(resp, hx) ==
    IF ~HxTruthy(hx) THEN resp
    ELSE IF 300 <= resp.status /\ resp.status < 400
    THEN [HttpResponse(NoBody, 204) EXCEPT !.redirect =
            <<IF resp.location = <<>> THEN "" ELSE resp.location[1]>>]
    ELSE resp

\* HtmxRedirectMiddleware.__call__ after get_response
HtmxRedirectMiddleware_call(resp, hx) ==
    IF ~HxTruthy(hx) THEN resp
    ELSE IF 300 <= resp.status /\ resp.status < 400
    THEN LET redirect_url == IF resp.location = <<>> THEN "" ELSE resp.location[1] IN
         IF redirect_url # ""
         THEN [HttpResponse(NoBody, 204) EXCEPT !.redirect = <<redirect_url>>]
         ELSE resp
    ELSE resp

\* str.lower() on the header names that occur
Lower(name) ==
    CASE name = "HX-Request" -> "hx-request"
      [] name = "Cookie" -> "cookie"
      [] OTHER -> name
\* django.utils.cache.patch_vary_headers(response, newheaders); a Vary value is
\* the sequence of the header names it lists
patch_vary_headers(resp, newheaders) ==
    LET vary_headers == IF resp.vary = <<>> THEN <<>> ELSE resp.vary[1]
        existing == {Lower(vary_headers[i]) : i \in 1..Len(vary_headers)}
        additional == SelectSeq(newheaders, LAMBDA h : Lower(h) \notin existing)
        all == vary_headers \o additional
    IN [resp EXCEPT !.vary =
            IF \E i \in 1..Len(all) : all[i] = "*" THEN <<(<<"*">>)>> ELSE <<all>>]

\* HtmxVaryHeaderMiddleware.__call__ assigning Vary instead of patching it
HtmxVaryHeaderMiddleware_call_Overwrite(resp) == [resp EXCEPT !.vary = <<(<<"HX-Request">>)>>]

\* HtmxVaryHeaderMiddleware.__call__ after get_response
HtmxVaryHeaderMiddleware_call(resp) == patch_vary_headers(resp, <<"HX-Request">>)

----------------------------------------------------------------------------
(* MwSpec: requests travelling through the middleware chain *)

RECURSIVE Reverse(_)
Reverse(seq) == IF seq = <<>> THEN <<>> ELSE Append(Reverse(Tail(seq)), Head(seq))

\* the installation orders of the three middlewares
Orders ==
    {o \in [1..3 -> {"message", "redirect", "vary"}] :
        \A i, j \in 1..3 : i # j => o[i] # o[j]}

\* values of the HX-Request request header
HxValues == {<<>>, <<"">>, <<"true">>, <<"false">>, <<"1">>}
\* messages the view (or an earlier layer) queues
QueuedMessages == {Message("success", "Saved"), Message("error", "Failed")}
RECURSIVE SeqsUpTo(_, _)
SeqsUpTo(set, n) ==
    IF n = 0 THEN {<<>>}
    ELSE SeqsUpTo(set, n - 1)
         \cup {Append(q, m) : q \in {r \in SeqsUpTo(set, n - 1) : Len(r) = n - 1}, m \in set}

\* HX-Trigger values a view sets (absent; the bare names of admin.py:179; JSON
\* objects as htmx_response writes them; an empty value; JSON that is no
\* object: a list, a quoted string, a number, true, null)
ViewTriggers ==
    {<<>>,
     <<(<<W("cellUpdated")>>)>>,
     <<(<<W("fooEvent")>>)>>,
     <<Dumps(JObj(<<KV("cellUpdated", JTrue)>>))>>,
     <<Dumps(JObj(<<KV("showMessages", JTrue),
                    KV("rowDeleted", JObj(<<KV("id", JStr("1"))>>))>>))>>,
     <<(<<>>)>>,
     <<Dumps(JList(<<JStr("cellUpdated")>>))>>,
     <<Dumps(JStr("cellUpdated"))>>,
     <<Dumps(JNum("1"))>>,
     <<Dumps(JTrue)>>,
     <<Dumps(JNull)>>}
ViewStatuses == {200, 299, 300, 302, 399, 400}
ViewLocations == {<<>>, <<"">>, <<"/new-url/">>}
ViewVaries == {<<>>, <<(<<"Cookie">>)>>}
\* responses a view returns
ViewResponses ==
    {[status |-> st, body |-> NoBody, trigger |-> tr, location |-> loc,
      redirect |-> <<>>, vary |-> va] :
        st \in ViewStatuses, tr \in ViewTriggers, loc \in ViewLocations, va \in ViewVaries}

\* the request enters through every middleware and the view returns its response;
\* the storage holds the messages left from earlier requests and those queued now
ViewReturns ==
    /\ pending = <<>>
    /\ ran = <<>>
    /\ \E hx \in HxValues, resp \in ViewResponses,
          added \in SeqsUpTo(QueuedMessages, MaxMessages) :
        /\ Len(messages) + Len(added) <= MaxMessages
        /\ hxRequest' = hx
        /\ messages' = messages \o added
        /\ msgIn' = messages \o added
        /\ inner' = resp
        /\ mwIn' = resp
        /\ response' = resp
    /\ pending' = Reverse(order)
    /\ ran' = <<>>
    /\ UNCHANGED <<order, dbVars, call, inflight>>

\* the next middleware on the way out has its turn
Returns(name) ==
    /\ pending # <<>>
    /\ Head(pending) = name
    /\ pending' = Tail(pending)
    /\ ran' = Append(ran, name)
    /\ mwIn' = response
    /\ UNCHANGED <<order, hxRequest, msgIn, inner, dbVars, call, inflight>>

MessageMiddleware ==
    /\ Returns("message")
    /\ \E r \in {HtmxMessageMiddleware_call(response, hxRequest, messages)} :
        /\ response' = r.response
        /\ messages' = r.messages

RedirectMiddleware ==
    /\ Returns("redirect")
    /\ response' = HtmxRedirectMiddleware_call(response, hxRequest)
    /\ UNCHANGED messages

VaryHeaderMiddleware ==
    /\ Returns("vary")
    /\ response' = HtmxVaryHeaderMiddleware_call(response)
    /\ UNCHANGED messages

MwInit ==
    /\ InitDb
    /\ call = NoCall
    /\ response = HttpResponse(NoBody, 200)
    /\ order \in Orders
    /\ pending = <<>>
    /\ ran = <<>>
    /\ hxRequest = <<>>
    /\ messages = <<>>
    /\ msgIn = <<>>
    /\ inner = HttpResponse(NoBody, 200)
    /\ mwIn = HttpResponse(NoBody, 200)

MwNext ==
    \/ ViewReturns
    \/ MessageMiddleware
    \/ RedirectMiddleware
    \/ VaryHeaderMiddleware

MwSpec == MwInit /\ [][MwNext]_vars

----------------------------------------------------------------------------
(* Properties of the middlewares (checked under MwSpec) *)

\* the middleware that post-processed last; mwIn is what it received
LastRan(name) == ran # <<>> /\ ran[Len(ran)] = name
\* every middleware has returned: response is what leaves the process
Delivered == pending = <<>> /\ ran # <<>>
\* fragment mode as the Request Classifier defines it
FragmentMode == is_htmx_request(hxRequest)
\* the message middleware has just added showMessages
AddedShowMessages == LastRan("message") /\ HxTruthy(hxRequest) /\ msgIn # <<>>
IsRedirect(resp) == 300 <= resp.status /\ resp.status < 400
VaryLists(resp, name) ==
    resp.vary # <<>> /\ \E i \in 1..Len(resp.vary[1]) : resp.vary[1][i] = name
\* a header value that is one bare event name (no JSON text)
BareEventName(value) ==
    Len(value) = 1 /\ value[1].k = "w" /\ value[1].v \notin {"true", "false", "null"}

\* C6: when the message middleware adds showMessages to a response whose
\* HX-Trigger holds a JSON mapping, the result is a JSON object with every
\* earlier event and payload kept and showMessages set to the new list; when
\* the earlier header is a bare event name the result is exactly
\* {<name>: true, showMessages: [...]}.
C6_MergeKeepsEarlierEvents ==
    (AddedShowMessages /\ mwIn.trigger # <<>>)
    => LET old == Loads(mwIn.trigger[1]) IN
       /\ (old.ok /\ old.v.t = "obj")
            => /\ TriggerIsObject(response)
               /\ \A i \in 1..Len(old.v.kv) :
                    old.v.kv[i].k # "showMessages"
                    => /\ DictHas(TriggerEvents(response), old.v.kv[i].k)
                       /\ DictGet(TriggerEvents(response), old.v.kv[i].k) = old.v.kv[i].v
               /\ DictHas(TriggerEvents(response), "showMessages")
               /\ DictGet(TriggerEvents(response), "showMessages") = MessageList(msgIn)
               /\ \A i \in 1..Len(TriggerEvents(response)) :
                    \/ TriggerEvents(response)[i].k = "showMessages"
                    \/ DictHas(old.v.kv, TriggerEvents(response)[i].k)
       /\ BareEventName(mwIn.trigger[1])
            => /\ TriggerIsObject(response)
               /\ TriggerEvents(response)
                    = <<KV(mwIn.trigger[1][1].v, JTrue),
                        KV("showMessages", MessageList(msgIn))>>

C6_Witness ==
    /\ AddedShowMessages
    /\ Len(msgIn) = 2
    /\ mwIn.trigger = <<Dumps(JObj(<<KV("showMessages", JTrue),
                                     KV("rowDeleted", JObj(<<KV("id", JStr("1"))>>))>>))>>
    /\ TriggerIsObject(response)
    /\ DictGet(TriggerEvents(response), "rowDeleted") = JObj(<<KV("id", JStr("1"))>>)
    /\ DictGet(TriggerEvents(response), "showMessages") = MessageList(msgIn)

\* C7 as claimed: every 3xx response to a fragment-mode request is turned by
\* the redirect middleware into a 204 whose HX-Redirect is the Location.
C7_EveryRedirectConverted ==
    (LastRan("redirect") /\ FragmentMode /\ IsRedirect(mwIn))
    => (response.status = 204 /\ response.redirect = mwIn.location)

\* C7 as amended: a 3xx response with a non-empty Location to a
\* fragment-mode request is replaced by a 204 that carries HX-Redirect equal
\* to that Location and nothing of the original response.
C7_RedirectWithLocationConverted ==
    (/\ LastRan("redirect")
     /\ FragmentMode
     /\ IsRedirect(mwIn)
     /\ mwIn.location # <<>>
     /\ mwIn.location # <<"">>)
    => response = [HttpResponse(NoBody, 204) EXCEPT !.redirect = mwIn.location]

C7_Witness ==
    /\ LastRan("redirect")
    /\ FragmentMode
    /\ mwIn.status = 302
    /\ mwIn.location = <<"/new-url/">>
    /\ mwIn.trigger # <<>>
    /\ mwIn.vary # <<>>
    /\ response.status = 204
    /\ response.redirect = <<"/new-url/">>
    /\ response.trigger = <<>>

\* C8: a 3xx response to a request that is not fragment-mode leaves the
\* redirect middleware as it entered it.
C8_NonFragmentRedirectUnchanged ==
    (LastRan("redirect") /\ ~FragmentMode /\ IsRedirect(mwIn))
    => response = mwIn

\* C9: the response delivered for a fragment-mode request lists HX-Request in
\* Vary, whatever its status and whatever the order of the middlewares.
C9_FragmentResponseVaries ==
    (Delivered /\ FragmentMode) => VaryLists(response, "HX-Request")

----------------------------------------------------------------------------
(* EncSpec: direct calls of htmx_response *)

\* event names a caller passes as keyword arguments
TriggerNames == {"rowDeleted", "showMessage", "formSuccess"}
\* payloads a caller passes: booleans, None, strings, numbers, dicts, lists
\* and nestings of them (tests/test_mixins.py:46-47, mixins.py:55-56)
TriggerPayloads ==
    {JTrue, JNull, JStr("123"), JNum("123"),
     JObj(<<>>),
     JObj(<<KV("id", JNum("123"))>>),
     SuccessMessage("Done!"),
     JList(<<JStr("a"), JObj(<<KV("ids", JList(<<JNum("1")>>))>>)>>)}
RECURSIVE TriggerMaps(_)
\* **triggers: keyword arguments with distinct names, in call order
TriggerMaps(n) ==
    IF n = 0 THEN {<<>>}
    ELSE TriggerMaps(n - 1)
         \cup UNION {{Append(t, KV(k, v)) :
                        k \in {name \in TriggerNames : ~DictHas(t, name)},
                        v \in TriggerPayloads} :
                     t \in {u \in TriggerMaps(n - 1) : Len(u) = n - 1}}
CallContents == {NoBody, TextBody("Hello")}
CallStatuses == {200, 204, 422}

\* a view calls self.htmx_response(content, status, **triggers)
HtmxResponseCall ==
    /\ ~call.returned
    /\ response' = htmx_response(call.content, call.status, call.triggers)
    /\ call' = [call EXCEPT !.returned = TRUE]
    /\ UNCHANGED <<dbVars, mwVars, inflight>>

EncInit ==
    /\ InitDb
    /\ response = HttpResponse(NoBody, 200)
    /\ order = DefaultOrder
    /\ pending = <<>>
    /\ ran = <<>>
    /\ hxRequest = <<>>
    /\ messages = <<>>
    /\ msgIn = <<>>
    /\ inner = HttpResponse(NoBody, 200)
    /\ mwIn = HttpResponse(NoBody, 200)
    /\ call \in {Call(c, st, t, FALSE) :
                    c \in CallContents, st \in CallStatuses, t \in TriggerMaps(MaxTriggers)}

EncNext == HtmxResponseCall

EncSpec == EncInit /\ [][EncNext]_vars

\* C20: htmx_response returns a response with the given status and body; it
\* has an HX-Trigger header exactly when at least one trigger is given, and
\* decoding that header yields the given mapping of names to payloads.
C20_HtmxResponseRoundTrip ==
    call.returned
    => /\ response.status = call.status
       /\ response.body = call.content
       /\ (response.trigger # <<>>) <=> (call.triggers # <<>>)
       /\ call.triggers # <<>>
            => /\ Loads(response.trigger[1]).ok
               /\ Loads(response.trigger[1]).v = JObj(call.triggers)

C20_Witness ==
    /\ call.returned
    /\ call.status = 204
    /\ Len(call.triggers) = 2
    /\ call.triggers[1] = KV("showMessage", SuccessMessage("Done!"))
    /\ call.triggers[2].v.t = "list"
    /\ response.trigger # <<>>
    /\ TriggerIsObject(response)
    /\ DictGet(TriggerEvents(response), "showMessage") = SuccessMessage("Done!")

----------------------------------------------------------------------------
(* Further properties of the middlewares (checked under MwSpec) *)

\* C11: the interceptors treat a request as fragment-mode exactly when
\* is_htmx_request does; for a request whose HX-Request header is absent or
\* is not the literal 'true' the delivered response keeps the view's status
\* and headers (a 3xx stays a 3xx, no showMessages appears) and the pending
\* messages stay queued.
C11_InterceptorsUseClassifier ==
    (Delivered /\ ~FragmentMode)
    => /\ messages = msgIn
       /\ response.status = inner.status
       /\ response.location = inner.location
       /\ response.redirect = inner.redirect
       /\ response.trigger = inner.trigger

\* the view's response is a redirect with a target
RedirectsSomewhere(resp) ==
    IsRedirect(resp) /\ resp.location # <<>> /\ resp.location # <<"">>

\* C12: when the view answers a fragment-mode request with a 3xx that has a
\* Location while messages are pending, the delivered response is the
\* synthesized 204 with HX-Redirect and without any HX-Trigger, whichever of
\* the message and redirect middlewares is outermost.
C12_RedirectPrecedesMessages ==
    (Delivered /\ FragmentMode /\ RedirectsSomewhere(inner) /\ msgIn # <<>>)
    => /\ response.status = 204
       /\ response.redirect = inner.location
       /\ response.trigger = <<>>

\* C13: for a fragment-mode request with pending messages the message
\* middleware leaves an HX-Trigger whose showMessages event is the list of
\* the pending messages, one {level, message} entry each, in queue order,
\* and the queue is empty afterwards.
C13_ShowMessagesListsQueue ==
    (LastRan("message") /\ FragmentMode /\ msgIn # <<>>)
    => /\ TriggerIsObject(response)
       /\ DictHas(TriggerEvents(response), "showMessages")
       /\ LET shown == DictGet(TriggerEvents(response), "showMessages") IN
          /\ shown.t = "list"
          /\ Len(shown.kv) = Len(msgIn)
          /\ \A i \in 1..Len(msgIn) :
                shown.kv[i].v = JObj(<<KV("level", JStr(msgIn[i].level)),
                                       KV("message", JStr(msgIn[i].message))>>)
       /\ messages = <<>>

\* C14: for a request that is not fragment-mode the message middleware
\* returns the response it received unchanged and leaves the pending
\* messages queued.
C14_NonFragmentMessagesUntouched ==
    (LastRan("message") /\ ~FragmentMode)
    => (response = mwIn /\ messages = msgIn)

\* C15: when the response already carries an HX-Trigger that is not a JSON
\* mapping (a bare name, or JSON that is no object), the message middleware
\* raises nothing and leaves the JSON object {<raw header value>: true,
\* showMessages: [...]}.
C15_MalformedHeaderTolerated ==
    (/\ LastRan("message")
     /\ FragmentMode
     /\ msgIn # <<>>
     /\ mwIn.trigger # <<>>
     /\ ~(Loads(mwIn.trigger[1]).ok /\ Loads(mwIn.trigger[1]).v.t = "obj"))
    => /\ response.status = mwIn.status
       /\ TriggerIsObject(response)
       /\ Len(TriggerEvents(response)) = 2
       /\ DictHas(TriggerEvents(response), Text(mwIn.trigger[1]))
       /\ DictGet(TriggerEvents(response), Text(mwIn.trigger[1])) = JTrue
       /\ DictHas(TriggerEvents(response), "showMessages")
       /\ DictGet(TriggerEvents(response), "showMessages") = MessageList(msgIn)

C27_EmptyQueueLeavesHeader ==
    (LastRan("message") /\ FragmentMode /\ msgIn = <<>>)
    => (response = mwIn /\ messages = <<>>)

C27_Witness ==
    /\ LastRan("message")
    /\ FragmentMode
    /\ msgIn = <<>>
    /\ mwIn.trigger = <<(<<W("cellUpdated")>>)>>
    /\ response.trigger = <<(<<W("cellUpdated")>>)>>

\* C29: for a fragment-mode request the redirect middleware returns the
\* response it received unchanged whenever its status is outside 300..399
\* or it is a 3xx whose Location is absent or empty.
C29_OtherResponsesPassRedirect ==
    (LastRan("redirect") /\ FragmentMode /\ ~RedirectsSomewhere(mwIn))
    => response = mwIn

C29_Witness ==
    /\ LastRan("redirect")
    /\ FragmentMode
    /\ mwIn.status = 302
    /\ mwIn.location = <<"">>
    /\ mwIn.trigger # <<>>
    /\ response = mwIn

----------------------------------------------------------------------------
(* Requests handled side by side.  Several workers of the host serve      *)
(* requests at the same time (the handlers take no lock and open no        *)
(* transaction): a handler's load of its record and its later save or      *)
(* delete are separate statements on the table, and other workers'         *)
(* statements can fall between them.                                       *)

\* the records in the table when the server starts
InitPks == {pk \in Pks : InitStore[pk] # <<>>}

\* the requests the workers receive: inline edits, modal edits and deletes
\* of existing records
ConcRequests ==
    UNION {
      {Request(e, "POST", str(pk), "price", Data([price |-> "25"])) :
          e \in {"admin_edit", "view_edit"}}
      \cup {Request(e, "POST", str(pk), "description", Data([description |-> "d"])) :
          e \in {"admin_edit", "view_edit"}}
      \cup {Request(e, "POST", str(pk), "", Data([name |-> "A", price |-> "25"])) :
          e \in {"admin_modal", "view_modal"}}
      \cup {Request(e, "POST", str(pk), "", NoData) :
          e \in {"admin_delete", "view_delete"}}
      : pk \in InitPks}

\* the URLconf: the handler a request is routed to
Dispatch(db, next, req) ==
    CASE req.endpoint = "admin_edit"
           -> htmx_edit_field(db, next, req.method, req.object_id, req.field, req.data)
      [] req.endpoint = "view_edit"
           -> HtmxInlineEditView_post(db, next, req.object_id, req.field, req.data)
      [] req.endpoint = "admin_modal"
           -> htmx_modal(db, next, req.method, req.object_id, req.data)
      [] req.endpoint = "view_modal"
           -> HtmxModalView_post(db, next, req.object_id, req.data)
      [] req.endpoint = "admin_delete"
           -> htmx_delete(db, next, req.method, req.object_id)
      [] req.endpoint = "view_delete"
           -> HtmxDeleteView_post(db, next, req.object_id)

\* a worker receives a request and its handler loads the record
\* (get_object_or_404 / objects.get): the instance holds the row as it is now
Load(w) ==
    /\ w = Len(inflight) + 1
    /\ \E req \in ConcRequests :
         inflight' = Append(inflight,
                            Inflight(req, "loaded", store[ToPk(req.object_id)], 0))
    /\ UNCHANGED <<dbVars, mwVars, response, call>>

\* the table as the handler of worker w sees it through the instance it loaded
Seen(w) == [store EXCEPT ![ToPk(inflight[w].req.object_id)] = inflight[w].obj]

\* the handler of worker w runs on from its load to its response: the form
\* is built over the loaded instance, and Model.save() writes every column
\* of that instance to the row of its key (inserting the row when no row
\* has the key), Model.delete() removes the row of its key
Finish(w) ==
    /\ w \in DOMAIN inflight
    /\ inflight[w].pc = "loaded"
    /\ \E r \in {Dispatch(Seen(w), nextPk, inflight[w].req)} :
         \E after \in {IF r.writes > 0
                        THEN [store EXCEPT ![ToPk(inflight[w].req.object_id)]
                                             = r.store[ToPk(inflight[w].req.object_id)]]
                        ELSE store} :
           /\ store' = after
           /\ related' = RelatedAfter(related, [r EXCEPT !.store = after])
           /\ before' = store
           /\ request' = inflight[w].req
           /\ response' = r.response
           /\ access' = [loads |-> r.loads, writes |-> r.writes]
           /\ served' = served + 1
           /\ inflight' = [inflight EXCEPT ![w].pc = "done",
                                           ![w].status = r.response.status]
    /\ UNCHANGED <<nextPk, mwVars, call>>

ConcInit == Init

ConcNext == \E w \in Workers : Load(w) \/ Finish(w)

ConcSpec == ConcInit /\ [][ConcNext]_vars

\* worker w has answered an inline-edit POST with 200
EditedOk(w) ==
    /\ inflight[w].pc = "done"
    /\ inflight[w].req.endpoint \in {"admin_edit", "view_edit"}
    /\ inflight[w].req.field \in Allowlist
    /\ inflight[w].status = 200

\* the workers other than v and w have not touched the record of worker w
OnlyThese(v, w) ==
    \A u \in DOMAIN inflight \ {v, w} :
        inflight[u].req.object_id # inflight[w].req.object_id

\* C26: when two inline-edit requests for two different allowlisted fields
\* of one record, both with valid data, have both been answered, the record
\* holds both submitted values, however their steps interleaved.
C26_InterleavedEditsBothKept ==
    \A v, w \in DOMAIN inflight :
        (/\ v # w
         /\ EditedOk(v) /\ EditedOk(w)
         /\ inflight[v].req.object_id = inflight[w].req.object_id
         /\ inflight[v].req.field # inflight[w].req.field
         /\ OnlyThese(v, w))
        => \A u \in {v, w} :
             /\ Exists(store, ToPk(inflight[u].req.object_id))
             /\ Row(store, ToPk(inflight[u].req.object_id))[inflight[u].req.field]
                  = HostClean(inflight[u].req.field,
                              inflight[u].req.data[inflight[u].req.field]).value

\* C30: once a delete request has removed a record (answered 204), the
\* record stays absent: no inline edit or modal edit that loaded the record
\* before the delete brings it back when it saves.
C30_DeletedStaysDeleted ==
    \A w \in DOMAIN inflight :
        (/\ inflight[w].pc = "done"
         /\ inflight[w].req.endpoint \in {"admin_delete", "view_delete"}
         /\ inflight[w].status = 204)
        => ~Exists(store, ToPk(inflight[w].req.object_id))

====
